---- MODULE Spec2Model ----
(***************************************************************************)
(* A model of the two batch pipelines of the repository:                   *)
(*   - src/audioEval.py: process_all_audio_files and the three remote      *)
(*     clients it calls (speech_to_text_sarvam, translate_with_gemini,     *)
(*     speech_to_text_gemini);                                             *)
(*   - src/modifiedHierarcy.py: StoryProcessor (scan_text_files,           *)
(*     parse_meta_tags_json, generate_meta_tags, process_stories).         *)
(*                                                                         *)
(* Money is counted in units of 0.025 micro-USD, so that the token         *)
(* estimate len(text)/4 times a per-token price stays an integer: a price  *)
(* per token is written in units of 0.1 micro-USD and multiplied by the    *)
(* number of characters, which is four times the token count.              *)
(* Time is counted in whole seconds.  The clock `now` models time.time();  *)
(* it is read relative to the entry of the client function that is         *)
(* running, since every latency of the program is a difference of two      *)
(* readings taken inside one call.                                         *)
(***************************************************************************)
EXTENDS Integers, Sequences, FiniteSets, TLC

VARIABLES
    \* ---- audio pipeline (src/audioEval.py) ----
    audio_files,             \* the enumerated files, in enumeration order
    pc,                      \* position of process_all_audio_files
    idx,                     \* 1-based position of the for loop (line 213)
    results,                 \* the rows appended so far
    total_sarvam_cost, total_gemini_cost, total_translation_cost,
    total_sarvam_time, total_gemini_time, total_translation_time,
    loc,                     \* the loop body's local variables
    attempt,                 \* speech_to_text_gemini's loop variable
    now,                     \* time.time(), relative to the running call
    sent,                    \* history: the requests sent for the current file
    slept,                   \* history: the time.sleep() arguments for the current file
    calls,                   \* history: what each client call of the current file
                             \* returned, and the exception that ended its iteration
    returned,                \* history: per provider, the sums of the costs and
                             \* latencies its calls returned during the batch
    output_csv               \* the data rows written to the CSV file

audio_vars == <<audio_files, pc, idx, results,
                total_sarvam_cost, total_gemini_cost, total_translation_cost,
                total_sarvam_time, total_gemini_time, total_translation_time,
                loc, attempt, now, sent, slept, calls, returned,
                output_csv>>

VARIABLES
    \* ---- text pipeline (src/modifiedHierarcy.py) ----
    text_files,              \* the .txt files scan_text_files enumerated
    num_rows,                \* the num_rows argument of process_stories
    selected,                \* df.head(num_rows): positions in text_files
    tpc,                     \* position of StoryProcessor.run
    tpos,                    \* 1-based position of the loop of line 312
    story_results,           \* the rows appended so far
    story_csv,               \* the rows written to the output file
    last_parse               \* history: the latest call of parse_meta_tags_json

text_vars == <<text_files, num_rows, selected, tpc, tpos, story_results,
               story_csv, last_parse>>

\* parse_meta_tags_json called on its own
VARIABLES
    ppc,            \* "idle", "start", "parsed", "fenced", "reparsed", "TypeError"
    p_text,         \* the text of the first call
    p_first,        \* what the first call returned
    p_wrap,         \* how the text of the second call was fenced
    p_text2,        \* the text of the second call
    p_second        \* what the second call returned

parser_vars == <<ppc, p_text, p_first, p_wrap, p_text2, p_second>>

vars == <<audio_vars, text_vars, parser_vars>>

-----------------------------------------------------------------------------
(* Bounds of the model *)

MaxFiles == 2          \* audio files in a batch: 0..MaxFiles
MaxStories == 2        \* text files in the folder: 0..MaxStories

\* The wall-clock durations a request to each service can take, in seconds.
\* They differ between the services, so that a latency booked on the wrong
\* total shows.
RequestTimes(to) ==
    CASE to = "sarvam" -> {2}
      [] to = "translate" -> {3}
      [] to = "gemini" -> {1}

\* The decoded lengths of the readable audio files, in seconds
DecodedSeconds == {2}

-----------------------------------------------------------------------------
(* Program constants *)

SARVAM_PRICE == 30000           \* 0.00075 USD per second
GEMINI_INPUT_TEXT == 3          \* 0.3 / 1e6 USD per token
GEMINI_INPUT_AUDIO == 10        \* 1 / 1e6 USD per token
GEMINI_OUTPUT_TEXT == 25        \* 2.5 / 1e6 USD per token
AUDIO_TOKENS_PER_SECOND == 50
CHARS_PER_TOKEN == 4
retries == 2
delay == 30

Max(a, b) == IF a >= b THEN a ELSE b

-----------------------------------------------------------------------------
(* Files.  ms is the decoded length pydub reports (-1: decoding fails),    *)
(* mib the file size in MiB, readable whether open() succeeds.             *)

AudioFileKinds ==
    [readable : {TRUE}, ms : {1000 * s : s \in DecodedSeconds}, mib : {0}]
      \cup [readable : {FALSE}, ms : {-1}, mib : {0}]

get_audio_duration(f) ==
    IF f.ms >= 0 THEN f.ms \div 1000
    ELSE IF f.readable THEN Max(1, f.mib * 60) ELSE 1

\* estimate_tokens, times CHARS_PER_TOKEN: the number of characters
estimate_tokens4(text) == IF text # "" THEN Len(text) ELSE 0

-----------------------------------------------------------------------------
(* JSON objects are records; an absent key is a key outside the DOMAIN.    *)

EmptyObject == [k \in {} |-> ""]

\* dict.get(key, default)
Get(obj, key, default) == IF key \in DOMAIN obj THEN obj[key] ELSE default

\* None, as the value of a variable that otherwise holds a string
NoneValue == "<None>"

\* bool(value) of a string or None
Truthy(value) == value # NoneValue /\ value # ""

\* str.strip(): the texts of the model carry whitespace only when they are
\* nothing but whitespace
Strip(text) == IF text \in {" ", "\n", " \n "} THEN "" ELSE text

\* The outcome of a call: exc is the message of the exception it raised,
\* or NoException when it returned.
NoException == ""

-----------------------------------------------------------------------------
(* speech_to_text_sarvam (lines 64-98) *)

HttpStatuses == {200, 429, 500}

\* The statuses of the Gemini transcription endpoint: also a redirection
\* status that the HTTP client hands back with a body
GeminiStatuses == HttpStatuses \cup {302}

\* response.ok of the requests library: the status is below 400
ResponseOk(status) == status < 400

SarvamBodies ==
    { [transcript |-> "hello", language_code |-> "en-IN"],
      [transcript |-> "hello", language_code |-> "en"],
      [transcript |-> "namaste", language_code |-> "hi-IN"],
      [transcript |-> "hello"] }

\* f: the file; status, body: the response; d: the duration of the request
speech_to_text_sarvam(f, status, d, body) ==
    IF ~f.readable
      THEN [exc |-> "FileNotFoundError"]
    ELSE IF status # 200
      THEN [exc |-> "Sarvam API Error: " \o ToString(status)]
    ELSE [exc |-> NoException,
          transcript |-> Get(body, "transcript", "No transcript available"),
          detected_lang |-> Get(body, "language_code", "Unknown"),
          latency |-> d,
          cost |-> get_audio_duration(f) * SARVAM_PRICE]

-----------------------------------------------------------------------------
(* translate_with_gemini (lines 100-134) *)

TranslatePrompt(text, source_lang) ==
    "Translate the following text from " \o source_lang
      \o " to English. Provide only the translation without any additional commentary:\n\n"
      \o text

Part(text) == [text |-> text]
Candidate(parts) == [content |-> [parts |-> parts]]

TranslateBodies ==
    { [candidates |-> <<Candidate(<<Part("hello")>>)>>],
      [candidates |-> <<Candidate(<<Part(" ")>>)>>],
      [candidates |-> <<Candidate(<<EmptyObject>>)>>],
      [candidates |-> <<[finishReason |-> "SAFETY"]>>],
      [promptFeedback |-> "BLOCKED"],
      [candidates |-> <<>>],
      [candidates |-> <<Candidate(<<>>)>>] }

\* result.get("candidates", [{}])[0].get("content", {}).get("parts", [{}])[0]
\*       .get("text", "").strip(), or the IndexError it raises
ExtractTranslation(result) ==
    LET candidates == Get(result, "candidates", <<EmptyObject>>) IN
    IF candidates = <<>> THEN [exc |-> "list index out of range"]
    ELSE LET parts == Get(Get(candidates[1], "content", EmptyObject),
                          "parts", <<EmptyObject>>) IN
         IF parts = <<>> THEN [exc |-> "list index out of range"]
         ELSE [exc |-> NoException, text |-> Strip(Get(parts[1], "text", ""))]

translate_with_gemini(text, source_lang, status, d, body) ==
    IF ResponseOk(status)
      THEN LET x == ExtractTranslation(body) IN
           IF x.exc # NoException THEN [exc |-> x.exc]
           ELSE [exc |-> NoException,
                 translation |-> x.text,
                 latency |-> d,
                 cost |-> estimate_tokens4(TranslatePrompt(text, source_lang))
                            * GEMINI_INPUT_TEXT
                          + estimate_tokens4(x.text) * GEMINI_OUTPUT_TEXT]
      ELSE [exc |-> NoException, translation |-> NoneValue, latency |-> d, cost |-> 0]


-----------------------------------------------------------------------------
(* speech_to_text_gemini (lines 136-199) *)

GeminiPrompt ==
    "Please transcribe and translate the following audio into English. "
      \o "Return only the final English transcription, without any commentary or extra text."

GeminiBodies ==
    { [candidates |-> <<Candidate(<<Part("hello")>>)>>],
      [promptFeedback |-> "BLOCKED"],
      [candidates |-> <<>>] }

\* result["candidates"][0]["content"]["parts"][0]["text"].strip(), with the
\* KeyError and IndexError caught (lines 183-186)
ExtractTranscript(result) ==
    IF /\ "candidates" \in DOMAIN result
       /\ result.candidates # <<>>
       /\ "content" \in DOMAIN result.candidates[1]
       /\ "parts" \in DOMAIN result.candidates[1].content
       /\ result.candidates[1].content.parts # <<>>
       /\ "text" \in DOMAIN result.candidates[1].content.parts[1]
      THEN Strip(result.candidates[1].content.parts[1].text)
      ELSE "ERROR: Could not parse Gemini response"

\* Variant: start_time read once, before the loop
AttemptStartAtEntry(now_in_loop, now_at_entry) == now_at_entry

\* start_time of one attempt (line 162): read inside the loop
AttemptStartTime(now_in_loop, now_at_entry) == now_in_loop

\* Variant: a constant backoff
BackoffConstant(attempt_) == delay

\* wait = delay * (attempt + 1) (line 168); attempt counts from 0
BackoffWait(attempt_) == delay * (attempt_ + 1)

\* One iteration of the retry loop (lines 161-179) and, when it breaks out
\* of the loop, the rest of the function (lines 181-199).
GeminiIteration(f, attempt_, now_, status, d, body) ==
    LET start_time == AttemptStartTime(now_, 0)
        end_time == now_ + d
    IN  IF status = 429
          THEN IF attempt_ < retries
                 THEN [kind |-> "retry", wait |-> BackoffWait(attempt_),
                       end_time |-> end_time]
                 ELSE [kind |-> "raise",
                       exc |-> "Gemini API quota exceeded after retries."]
        ELSE IF ~ResponseOk(status)
          THEN [kind |-> "raise", exc |-> "Gemini API Error " \o ToString(status)]
        ELSE LET english_transcript == ExtractTranscript(body) IN
             [kind |-> "return",
              english_transcript |-> english_transcript,
              total_api_time |-> end_time - start_time,
              cost |-> estimate_tokens4(GeminiPrompt) * GEMINI_INPUT_TEXT
                       + get_audio_duration(f) * AUDIO_TOKENS_PER_SECOND
                           * CHARS_PER_TOKEN * GEMINI_INPUT_AUDIO
                       + estimate_tokens4(english_transcript) * GEMINI_OUTPUT_TEXT]

-----------------------------------------------------------------------------
(* process_all_audio_files (lines 201-319) *)

\* str formatting of the cells: f"{x:.2f}s", f"${x:.6f}"
FmtSeconds(x) == ToString(x) \o "s"
FmtUsd(x) == "$" \o ToString(x)

\* os.path.relpath(file_path, folder_path) of the i-th enumerated file
Filename(i) == "audio" \o ToString(i)

\* lines 250-260
SuccessRow(filename, duration, sarvam_resp, sarvam_total_time, sarvam_total_cost, needs_translation, gemini_resp, gemini_latency, gemini_cost) ==
    [filename |-> filename,
     duration |-> FmtSeconds(duration),
     sarvam_response |-> sarvam_resp,
     sarvam_total_latency |-> FmtSeconds(sarvam_total_time),
     sarvam_total_cost |-> FmtUsd(sarvam_total_cost),
     translation_needed |-> IF needs_translation THEN "Yes" ELSE "No",
     gemini_response |-> gemini_resp,
     gemini_latency |-> FmtSeconds(gemini_latency),
     gemini_cost |-> FmtUsd(gemini_cost)]

\* lines 264-274
FailedRow(filename, e) ==
    [filename |-> filename,
     duration |-> "N/A",
     sarvam_response |-> "ERROR: " \o e,
     sarvam_total_latency |-> "N/A",
     sarvam_total_cost |-> "N/A",
     translation_needed |-> "N/A",
     gemini_response |-> "ERROR: " \o e,
     gemini_latency |-> "N/A",
     gemini_cost |-> "N/A"]

\* lines 277-292
TotalsRow(combined_sarvam_time, combined_sarvam_cost, gemini_time, gemini_cost) ==
    [filename |-> "TOTALS",
     duration |-> "",
     sarvam_response |-> "",
     sarvam_total_latency |-> FmtSeconds(combined_sarvam_time),
     sarvam_total_cost |-> FmtUsd(combined_sarvam_cost),
     translation_needed |-> "",
     gemini_response |-> "",
     gemini_latency |-> FmtSeconds(gemini_time),
     gemini_cost |-> FmtUsd(gemini_cost)]

\* Variant: total = value
AccumulateOverwrite(total, value) == value

\* total += value (lines 218-219, 228-229, 244-245)
Accumulate(total, value) == total + value

\* Variant: the translation share left out
CombinedSttOnly(stt, translation) == stt

\* sarvam_cost + translation_cost, sarvam_latency + translation_latency
\* (lines 239-240), and the combined totals (lines 277-278)
Combined(stt, translation) == stt + translation

\* sarvam_lang not in ['en-IN', 'en'] (line 224)
NeedsTranslation(sarvam_lang) == sarvam_lang \notin {"en-IN", "en"}

\* The loop body's locals before the first assignment of an iteration
NoLocals ==
    [sarvam_transcript |-> "", sarvam_lang |-> "", sarvam_latency |-> 0,
     sarvam_cost |-> 0, translation_latency |-> 0, translation_cost |-> 0,
     needs_translation |-> FALSE, sarvam_resp |-> ""]

\* What the history keeps of the current file: the (cost, latency) each call
\* returned (a sequence of zero or one records), the duration of Gemini's
\* successful request, the exception that ended the iteration, and the six
\* running totals as they were when the iteration began.
NoCalls ==
    [sarvam |-> <<>>, translation |-> <<>>, gemini |-> <<>>,
     ok_request_time |-> <<>>, exc |-> NoException, before |-> <<>>]

Returned(r) == <<[cost |-> r.cost, latency |-> r.latency]>>

\* The history of the batch: the sums over the calls that returned, and the
\* sums of the latency and cost columns over the success rows appended
\* (lines 250-260), before they are formatted
NoneReturned ==
    [sarvam_cost |-> 0, sarvam_time |-> 0, translation_cost |-> 0,
     translation_time |-> 0, gemini_cost |-> 0, gemini_time |-> 0,
     rows_sarvam_time |-> 0, rows_sarvam_cost |-> 0,
     rows_gemini_time |-> 0, rows_gemini_cost |-> 0]

\* Variant: the function returns when the loop ends
LoopNextNoTotals ==
    /\ idx' = idx + 1
    /\ pc' = IF idx + 1 <= Len(audio_files) THEN "sarvam" ELSE "returned"
    /\ loc' = NoLocals
    /\ attempt' = 0
    /\ now' = 0

\* The for loop moves to the next file, or the loop ends (line 213)
LoopNext ==
    /\ idx' = idx + 1
    /\ pc' = IF idx + 1 <= Len(audio_files) THEN "sarvam" ELSE "totals"
    /\ loc' = NoLocals
    /\ attempt' = 0
    /\ now' = 0

\* Variant: the exception is swallowed without a row
ExceptClauseSkip(e) ==
    /\ results' = results
    /\ LoopNext

\* Variant: the exception leaves the loop
ExceptClauseAbort(e) ==
    /\ pc' = "aborted"
    /\ UNCHANGED <<results, idx, loc, attempt, now>>

\* except Exception as e (lines 262-274)
ExceptClause(e) ==
    /\ results' = Append(results, FailedRow(Filename(idx), e))
    /\ LoopNext

AudioTotals == <<total_sarvam_cost, total_gemini_cost, total_translation_cost,
                 total_sarvam_time, total_gemini_time, total_translation_time>>

AudioInit ==
    /\ audio_files \in UNION {[1..n -> AudioFileKinds] : n \in 0..MaxFiles}
    /\ pc = IF Len(audio_files) > 0 THEN "sarvam" ELSE "totals"
    /\ idx = 1
    /\ results = <<>>
    /\ total_sarvam_cost = 0 /\ total_gemini_cost = 0
    /\ total_translation_cost = 0
    /\ total_sarvam_time = 0 /\ total_gemini_time = 0
    /\ total_translation_time = 0
    /\ loc = NoLocals
    /\ attempt = 0
    /\ now = 0
    /\ sent = <<>>
    /\ slept = <<>>
    /\ calls = NoCalls
    /\ returned = NoneReturned
    /\ output_csv = <<>>

\* lines 214-224: the Sarvam call of the current file
SarvamStep ==
    /\ pc = "sarvam"
    /\ \E status \in HttpStatuses, d \in RequestTimes("sarvam"),
          body \in SarvamBodies :
         LET f == audio_files[idx]
             r == speech_to_text_sarvam(f, status, d, body)
         IN  /\ sent' = IF f.readable
                          THEN <<[to |-> "sarvam", status |-> status]>>
                          ELSE <<>>
             /\ slept' = <<>>
             /\ IF r.exc # NoException
                  THEN /\ ExceptClause(r.exc)
                       /\ calls' = [NoCalls EXCEPT !.exc = r.exc,
                                                   !.before = AudioTotals]
                       /\ UNCHANGED <<AudioTotals, returned>>
                  ELSE /\ returned' = [returned EXCEPT
                                         !.sarvam_cost = @ + r.cost,
                                         !.sarvam_time = @ + r.latency]
                       /\ total_sarvam_time' = Accumulate(total_sarvam_time, r.latency)
                       /\ total_sarvam_cost' = Accumulate(total_sarvam_cost, r.cost)
                       /\ loc' = [NoLocals EXCEPT
                                    !.sarvam_transcript = r.transcript,
                                    !.sarvam_lang = r.detected_lang,
                                    !.sarvam_latency = r.latency,
                                    !.sarvam_cost = r.cost,
                                    !.needs_translation = NeedsTranslation(r.detected_lang),
                                    !.sarvam_resp = r.transcript]
                       /\ pc' = IF NeedsTranslation(r.detected_lang)
                                  THEN "translate" ELSE "gemini"
                       /\ now' = 0
                       /\ calls' = [NoCalls EXCEPT !.sarvam = Returned(r),
                                                   !.before = AudioTotals]
                       /\ UNCHANGED <<idx, results, attempt, total_gemini_cost,
                                      total_translation_cost, total_gemini_time,
                                      total_translation_time>>
    /\ UNCHANGED <<audio_files, output_csv>>
    /\ UNCHANGED <<text_vars, parser_vars>>

\* Variant: the fallback to the transcript drops what the attempt cost
TranslationLocalsReset(loc_, r) ==
    [loc_ EXCEPT
       !.translation_latency = IF Truthy(r.translation) THEN r.latency ELSE 0,
       !.translation_cost = IF Truthy(r.translation) THEN r.cost ELSE 0,
       !.sarvam_resp = IF Truthy(r.translation) THEN r.translation
                                                ELSE loc_.sarvam_transcript]

\* The locals after the call returned r (line 227) and the choice of the
\* response (lines 231-234)
TranslationLocals(loc_, r) ==
    [loc_ EXCEPT
       !.translation_latency = r.latency,
       !.translation_cost = r.cost,
       !.sarvam_resp = IF Truthy(r.translation) THEN r.translation
                                                ELSE loc_.sarvam_transcript]

\* lines 226-234: the translation call
TranslateStep ==
    /\ pc = "translate"
    /\ \E status \in HttpStatuses, d \in RequestTimes("translate"),
          body \in TranslateBodies :
         LET r == translate_with_gemini(loc.sarvam_transcript, loc.sarvam_lang,
                                        status, d, body)
         IN  /\ sent' = Append(sent, [to |-> "translate", status |-> status])
             /\ IF r.exc # NoException
                  THEN /\ ExceptClause(r.exc)
                       /\ calls' = [calls EXCEPT !.exc = r.exc]
                       /\ UNCHANGED <<AudioTotals, returned>>
                  ELSE /\ returned' = [returned EXCEPT
                                         !.translation_cost = @ + r.cost,
                                         !.translation_time = @ + r.latency]
                       /\ total_translation_time' =
                            Accumulate(total_translation_time, r.latency)
                       /\ total_translation_cost' =
                            Accumulate(total_translation_cost, r.cost)
                       /\ loc' = TranslationLocals(loc, r)
                       /\ pc' = "gemini"
                       /\ now' = 0
                       /\ calls' = [calls EXCEPT !.translation =
                                       <<[cost |-> r.cost, latency |-> r.latency,
                                          translation |-> r.translation]>>]
                       /\ UNCHANGED <<idx, results, attempt, total_sarvam_cost,
                                      total_gemini_cost, total_sarvam_time,
                                      total_gemini_time>>
    /\ UNCHANGED <<audio_files, slept, output_csv>>
    /\ UNCHANGED <<text_vars, parser_vars>>

\* lines 243-260: one request of speech_to_text_gemini and what follows it
GeminiStep ==
    /\ pc = "gemini"
    /\ \E status \in GeminiStatuses, d \in RequestTimes("gemini"),
          body \in GeminiBodies :
         LET f == audio_files[idx]
             r == GeminiIteration(f, attempt, now, status, d, body)
         IN  /\ sent' = Append(sent, [to |-> "gemini", status |-> status])
             /\ CASE r.kind = "retry" ->
                       /\ slept' = Append(slept, r.wait)
                       /\ now' = r.end_time + r.wait
                       /\ attempt' = attempt + 1
                       /\ UNCHANGED <<pc, idx, results, loc, calls, returned, AudioTotals>>
                  [] r.kind = "raise" ->
                       /\ ExceptClause(r.exc)
                       /\ calls' = [calls EXCEPT !.exc = r.exc]
                       /\ UNCHANGED <<slept, returned, AudioTotals>>
                  [] r.kind = "return" ->
                       /\ returned' = [returned EXCEPT
                                         !.gemini_cost = @ + r.cost,
                                         !.gemini_time = @ + r.total_api_time,
                                         !.rows_sarvam_time = @ +
                                            Combined(loc.sarvam_latency,
                                                     loc.translation_latency),
                                         !.rows_sarvam_cost = @ +
                                            Combined(loc.sarvam_cost,
                                                     loc.translation_cost),
                                         !.rows_gemini_time = @ + r.total_api_time,
                                         !.rows_gemini_cost = @ + r.cost]
                       /\ total_gemini_time' = Accumulate(total_gemini_time, r.total_api_time)
                       /\ total_gemini_cost' = Accumulate(total_gemini_cost, r.cost)
                       /\ results' = Append(results,
                            SuccessRow(Filename(idx), get_audio_duration(f),
                                       loc.sarvam_resp,
                                       Combined(loc.sarvam_latency, loc.translation_latency),
                                       Combined(loc.sarvam_cost, loc.translation_cost),
                                       loc.needs_translation,
                                       r.english_transcript, r.total_api_time, r.cost))
                       /\ LoopNext
                       /\ calls' = [calls EXCEPT
                                      !.gemini =
                                         <<[cost |-> r.cost, latency |-> r.total_api_time]>>,
                                      !.ok_request_time = <<d>>]
                       /\ UNCHANGED <<slept, total_sarvam_cost, total_translation_cost,
                                      total_sarvam_time, total_translation_time>>
    /\ UNCHANGED <<audio_files, output_csv>>
    /\ UNCHANGED <<text_vars, parser_vars>>

\* lines 276-308: the totals row is appended and the CSV file written
TotalsStep ==
    /\ pc = "totals"
    /\ results' = Append(results,
          TotalsRow(Combined(total_sarvam_time, total_translation_time),
                    Combined(total_sarvam_cost, total_translation_cost),
                    total_gemini_time, total_gemini_cost))
    /\ output_csv' = results'
    /\ pc' = "summary"
    /\ sent' = <<>>
    /\ slept' = <<>>
    /\ calls' = NoCalls
    /\ UNCHANGED <<audio_files, idx, loc, attempt, now, returned, AudioTotals>>
    /\ UNCHANGED <<text_vars, parser_vars>>

\* lines 310-319: the summary; the averages divide by len(results) - 1
SummaryStep ==
    /\ pc = "summary"
    /\ pc' = IF Len(results) - 1 = 0 THEN "ZeroDivisionError" ELSE "done"
    /\ UNCHANGED <<audio_files, idx, results, loc, attempt, now, sent, slept,
                   calls, returned, output_csv, AudioTotals>>
    /\ UNCHANGED <<text_vars, parser_vars>>

-----------------------------------------------------------------------------
(* Python values, as json.loads and ast.literal_eval build them.  A dict    *)
(* keeps its keys in insertion order.                                       *)

PyStr(s) == [t |-> "str", s |-> s]
PyInt(n) == [t |-> "int", n |-> n]
PyNone == [t |-> "None"]
PyBool(b) == [t |-> "bool", b |-> b]
PyList(items) == [t |-> "list", items |-> items]
PyTuple(items) == [t |-> "tuple", items |-> items]
PySet(items) == [t |-> "set", items |-> items]
PyDict(keys, vals) == [t |-> "dict", keys |-> keys, vals |-> vals]

\* A dict with the string keys given, in order
StrDict(names, vals) == PyDict([i \in 1..Len(names) |-> PyStr(names[i])], vals)

\* k in d and d[k], for a string k
HasKey(d, k) == \E i \in 1..Len(d.keys) : d.keys[i] = PyStr(k)
Lookup(d, k) == d.vals[CHOOSE i \in 1..Len(d.keys) : d.keys[i] = PyStr(k)]

\* d[k] = v for a dict d
Put(d, k, v) ==
    IF \E i \in 1..Len(d.keys) : d.keys[i] = k
      THEN PyDict(d.keys, [i \in 1..Len(d.keys) |->
                              IF d.keys[i] = k THEN v ELSE d.vals[i]])
      ELSE PyDict(Append(d.keys, k), Append(d.vals, v))

RECURSIVE JoinStrings(_, _)
JoinStrings(strs, sep) ==
    IF strs = <<>> THEN ""
    ELSE IF Len(strs) = 1 THEN strs[1]
    ELSE strs[1] \o sep \o JoinStrings(Tail(strs), sep)

\* Whether json.dumps(value) returns: a set is not JSON serializable, and
\* the keys of a dict must be str, int, bool or None
RECURSIVE JsonSerializable(_)
JsonSerializable(value) ==
    CASE value.t = "set" -> FALSE
      [] value.t \in {"list", "tuple"} ->
           \A i \in 1..Len(value.items) : JsonSerializable(value.items[i])
      [] value.t = "dict" ->
           /\ \A i \in 1..Len(value.keys) :
                 value.keys[i].t \in {"str", "int", "bool", "None"}
           /\ \A i \in 1..Len(value.vals) : JsonSerializable(value.vals[i])
      [] OTHER -> TRUE

\* The name json.dumps writes for a key of a dict
JsonKey(key) ==
    CASE key.t = "str" -> key.s
      [] key.t = "int" -> ToString(key.n)
      [] key.t = "bool" -> IF key.b THEN "true" ELSE "false"
      [] key.t = "None" -> "null"

\* json.dumps(value, ensure_ascii=False) of a serializable value
RECURSIVE JsonDumps(_)
JsonDumps(value) ==
    CASE value.t = "str" -> "\"" \o value.s \o "\""
      [] value.t = "int" -> ToString(value.n)
      [] value.t = "None" -> "null"
      [] value.t = "bool" -> IF value.b THEN "true" ELSE "false"
      [] value.t \in {"list", "tuple"} ->
           "[" \o JoinStrings([i \in 1..Len(value.items) |-> JsonDumps(value.items[i])],
                              ", ") \o "]"
      [] value.t = "dict" ->
           "{" \o JoinStrings([i \in 1..Len(value.keys) |->
                                  "\"" \o JsonKey(value.keys[i]) \o "\": "
                                     \o JsonDumps(value.vals[i])], ", ") \o "}"

\* repr(value), as str() of a container shows its items
RECURSIVE PyRepr(_)
PyRepr(value) ==
    CASE value.t = "str" -> "'" \o value.s \o "'"
      [] value.t = "int" -> ToString(value.n)
      [] value.t = "None" -> "None"
      [] value.t = "bool" -> IF value.b THEN "True" ELSE "False"
      [] value.t = "list" ->
           "[" \o JoinStrings([i \in 1..Len(value.items) |-> PyRepr(value.items[i])],
                              ", ") \o "]"
      [] value.t = "tuple" ->
           "(" \o JoinStrings([i \in 1..Len(value.items) |-> PyRepr(value.items[i])],
                              ", ")
               \o (IF Len(value.items) = 1 THEN "," ELSE "") \o ")"
      [] value.t = "set" ->
           IF value.items = <<>> THEN "set()"
           ELSE "{" \o JoinStrings([i \in 1..Len(value.items) |->
                                       PyRepr(value.items[i])], ", ") \o "}"
      [] value.t = "dict" ->
           "{" \o JoinStrings([i \in 1..Len(value.keys) |->
                                  PyRepr(value.keys[i]) \o ": "
                                     \o PyRepr(value.vals[i])], ", ") \o "}"

\* str(value)
PyStrOf(value) == IF value.t = "str" THEN value.s ELSE PyRepr(value)

-----------------------------------------------------------------------------
(* Texts.  A text is a sequence of tokens: the fence marker ```, the        *)
(* language tag json, a run of whitespace, prose, or a document: a maximal  *)
(* piece of text that is one complete literal, with the syntaxes that       *)
(* accept it ("json": JSON only, "py": Python only, "both") and the value   *)
(* it denotes.                                                              *)

Fence == [tok |-> "fence"]
JsonTag == [tok |-> "json"]
Ws == [tok |-> " "]
Prose == [tok |-> "prose"]
Doc(syntax, value) == [tok |-> "doc", syntax |-> syntax, value |-> value]

\* str.strip()
RECURSIVE StripLeft(_)
StripLeft(text) ==
    IF text # <<>> /\ text[1] = Ws THEN StripLeft(Tail(text)) ELSE text

RECURSIVE StripRight(_)
StripRight(text) ==
    IF text # <<>> /\ text[Len(text)] = Ws
      THEN StripRight(SubSeq(text, 1, Len(text) - 1))
      ELSE text

StripText(text) == StripRight(StripLeft(text))

\* json_str.startswith("```json"): the fence and the tag are 7 characters
StartsWithJsonFence(text) == Len(text) >= 2 /\ text[1] = Fence /\ text[2] = JsonTag

\* json_str.endswith("```")
EndsWithFence(text) == text # <<>> /\ text[Len(text)] = Fence

\* Variant: the text is trimmed and the fences are left in place
CleanStripOnly(json_str) == StripText(json_str)

\* lines 148-153
CleanJsonString(json_str) ==
    LET a == StripText(json_str)
        b == IF StartsWithJsonFence(a) THEN SubSeq(a, 3, Len(a)) ELSE a
        c == IF EndsWithFence(b) THEN SubSeq(b, 1, Len(b) - 1) ELSE b
    IN  StripText(c)

\* json.loads(text): the value, or JSONDecodeError
JsonLoads(text) ==
    IF Len(text) = 1 /\ text[1].tok = "doc" /\ text[1].syntax \in {"json", "both"}
      THEN [exc |-> NoException, value |-> text[1].value]
      ELSE [exc |-> "JSONDecodeError"]

\* ast.literal_eval(text): the value, or SyntaxError / ValueError
LiteralEval(text) ==
    IF Len(text) = 1 /\ text[1].tok = "doc" /\ text[1].syntax \in {"py", "both"}
      THEN [exc |-> NoException, value |-> text[1].value]
      ELSE [exc |-> "SyntaxError"]

-----------------------------------------------------------------------------
(* StoryProcessor.parse_meta_tags_json (lines 144-206) *)

required_fields ==
    << "character_primary", "character_secondary", "setting_primary",
       "setting_secondary", "theme_primary", "theme_secondary", "events_primary",
       "events_secondary", "emotions_primary", "emotions_secondary", "keywords" >>

RequiredSet == {required_fields[i] : i \in 1..Len(required_fields)}

\* Variant: nested values are left as they are
StringifyNothing(value) == value

\* Variant: every value, a string too, is written by json.dumps
StringifyAlwaysDumps(value) == PyStr(JsonDumps(value))

\* stringify_value (lines 169-172), for a value json.dumps accepts
stringify_value(value) ==
    IF value.t \in {"list", "dict"}
      THEN PyStr(JsonDumps(value))
      ELSE PyStr(PyStrOf(value))

\* Variant: the default is stored for every required field, present or not
RECURSIVE FillOverwrite(_, _)
FillOverwrite(meta_dict, fields) ==
    IF fields = <<>> THEN meta_dict
    ELSE FillOverwrite(Put(meta_dict, PyStr(Head(fields)), PyStr("Not specified")),
                       Tail(fields))

\* lines 184-186: the fields that are missing are appended with the default
RECURSIVE FillMissing(_, _)
FillMissing(meta_dict, fields) ==
    IF fields = <<>> THEN meta_dict
    ELSE IF HasKey(meta_dict, Head(fields))
      THEN FillMissing(meta_dict, Tail(fields))
      ELSE FillMissing(PyDict(Append(meta_dict.keys, PyStr(Head(fields))),
                              Append(meta_dict.vals, PyStr("Not specified"))),
                       Tail(fields))

\* lines 194-206
ErrorRecord ==
    StrDict(required_fields, [i \in 1..Len(required_fields) |-> PyStr("Error parsing")])

\* lines 236-248
GenerateErrorRecord(e) ==
    StrDict(required_fields,
           [i \in 1..Len(required_fields) |->
               IF i = 1 THEN PyStr("Error: " \o e) ELSE PyStr("Error")])

\* Variant: the except clause of line 190 lets the exception through
ParseExceptReraise(e) == [exc |-> e]

\* except Exception as e (lines 190-206): the sentinel record is returned
ParseExcept(e) == [exc |-> NoException, via |-> "failed", record |-> ErrorRecord]

\* The try block (lines 146-188); via tells which parse gave the value
parse_meta_tags_json(json_str) ==
    LET cleaned == CleanJsonString(json_str)
        strict == JsonLoads(cleaned)
        literal == LiteralEval(cleaned)
        via == IF strict.exc = NoException THEN "json" ELSE "literal_eval"
        parsed == IF strict.exc = NoException THEN strict ELSE literal
    IN  IF parsed.exc # NoException
          THEN ParseExcept(parsed.exc)
        ELSE IF parsed.value.t # "dict"
          THEN ParseExcept("AttributeError")      \* no .items() (line 175)
        ELSE IF \E i \in 1..Len(parsed.value.vals) :
                   /\ parsed.value.vals[i].t \in {"list", "dict"}
                   /\ ~JsonSerializable(parsed.value.vals[i])
          THEN ParseExcept("TypeError")           \* json.dumps (line 171)
        ELSE [exc |-> NoException,
              via |-> via,
              record |-> FillMissing(
                  PyDict(parsed.value.keys,
                         [i \in 1..Len(parsed.value.vals) |->
                             stringify_value(parsed.value.vals[i])]),
                  required_fields)]

-----------------------------------------------------------------------------
(* The texts the model may answer with *)

SomeValue(i) == PyStr("value" \o ToString(i))

\* a JSON object with the 11 keys and string values
FullObject == StrDict(required_fields, [i \in 1..Len(required_fields) |-> SomeValue(i)])

\* a JSON object without the last three keys
PartialObject ==
    StrDict(SubSeq(required_fields, 1, 8), [i \in 1..8 |-> SomeValue(i)])

\* a JSON object with nested, numeric and null values and a key of its own
NestedObject ==
    StrDict(<<"character_primary", "setting_primary", "theme_primary",
             "events_primary", "notes">>,
           <<PyList(<<PyStr("Alice"), PyStr("Bob")>>),
             StrDict(<<"place">>, <<PyStr("farm")>>),
             PyInt(3), PyNone, PyBool(TRUE)>>)

\* a Python dict literal: single quotes, a tuple, None
LiteralObject ==
    StrDict(<<"character_primary", "keywords", "theme_primary">>,
           <<PyStr("Alice"), PyTuple(<<PyStr("a"), PyStr("b")>>), PyNone>>)

\* a Python dict literal with keys that are not strings
KeyedObject ==
    PyDict(<<PyInt(1), PyStr("keywords"), PyNone>>,
           <<PyStr("a"), PyStr("k"), PyStr("n")>>)

\* a Python dict literal with a tuple as a key
TupleKeyedObject == PyDict(<<PyTuple(<<PyInt(1), PyInt(2)>>)>>, <<PyStr("a")>>)

\* a Python dict literal whose list holds a set
UnserializableObject ==
    StrDict(<<"keywords">>, <<PyList(<<PySet(<<PyInt(1)>>)>>)>>)

Documents ==
    { Doc("both", FullObject),
      Doc("both", PartialObject),
      Doc("json", NestedObject),
      Doc("py", LiteralObject),
      Doc("py", UnserializableObject),
      Doc("py", KeyedObject),
      Doc("both", PyList(<<PyStr("a")>>)),
      Doc("both", PyInt(5)),
      Doc("py", PyStr("abc")) }

FencedDocuments == {Doc("both", PartialObject), Doc("py", LiteralObject)}

ModelOutputs ==
    { <<doc>> : doc \in Documents }
      \cup { <<Ws, doc, Ws>> : doc \in FencedDocuments }
      \cup { <<Fence, JsonTag, Ws, doc, Ws, Fence>> : doc \in FencedDocuments }
      \cup { <<Fence, Ws, doc, Ws, Fence>> : doc \in FencedDocuments }
      \cup { <<doc, Ws, Fence>> : doc \in FencedDocuments }
      \cup { <<>>, <<Prose>>, <<Fence, JsonTag, Ws, Prose, Ws, Fence>> }

-----------------------------------------------------------------------------
(* StoryProcessor.run: scan_text_files, process_stories (lines 109-132,     *)
(* 250-397).  A file name is the sequence of its parts between hyphens.     *)

\* valid_names after title_to_filename (lines 257-278)
valid_names ==
    { <<"a", "butterfly", "smile.txt">>,
      <<"hashim", "saves", "the", "mangoes.txt">>,
      <<"let", "s", "play.txt">>,
      <<"rose", "and", "rocky", "s", "war", "on", "insects.txt">>,
      <<"dum", "dum", "a", "dum", "biryani.txt">>,
      <<"how", "heavy", "is", "air.txt">>,
      <<"goby", "s", "noisy", "best", "friend.txt">>,
      <<"manikantan", "has", "enough.txt">>,
      <<"anna", "s", "extraordinary", "experiments", "with", "weather.txt">>,
      <<"how", "bittu", "bottu", "got", "better.txt">> }

DEFAULT_NUM_ROWS == 50

\* The names of the .txt files a folder may hold
StoryNames ==
    { <<"1", "a", "butterfly", "smile.txt">>,
      <<"2", "let", "s", "play.txt">>,
      <<"3", "the", "lost", "kite.txt">>,
      <<"a", "butterfly", "smile.txt">>,
      <<"notes.txt">> }

StoryFileKinds == [filename : StoryNames, readable : BOOLEAN]

\* "-".join(x.split('-')[1:]) (line 282)
TempName(filename) == Tail(filename)

\* lines 282-288: the positions of the files that pass the filter, in order
Filtered(files) ==
    SelectSeq([i \in 1..Len(files) |-> i],
              LAMBDA i : TempName(files[i].filename) \in valid_names)

Min(a, b) == IF a <= b THEN a ELSE b

\* The num_rows argument (line 250): None, or the number given
NoRows == [given |-> FALSE]
GivenRows(n) == [given |-> TRUE, n |-> n]

\* lines 291-293
EffectiveNumRows(num_rows_, len) ==
    Min(IF ~num_rows_.given THEN Min(DEFAULT_NUM_ROWS, len) ELSE num_rows_.n, len)

\* The 11 cells of a row, taken from a record (lines 339-349)
Cells(meta_dict) == [f \in RequiredSet |-> Lookup(meta_dict, f)]

\* lines 320-331
ReadErrorCells ==
    [f \in RequiredSet |->
        IF f = "character_primary" THEN PyStr("Error: Could not read file")
                                   ELSE PyStr("Error")]

StoryRow(filename, cells) == [filename |-> filename, cells |-> cells]

NoParse == [called |-> FALSE]

\* What self.predictor(story_text=...) may give (line 220): an exception, a
\* result whose meta_tags_json is None, or a result whose meta_tags_json is
\* a text
PredictorOutcomes ==
    {[kind |-> "raise"], [kind |-> "none"]}
      \cup {[kind |-> "text", text |-> t] : t \in ModelOutputs}

\* generate_meta_tags (lines 208-248).  parse_meta_tags_json called with None
\* fails at line 148 and again inside its own handler at line 192, so the
\* TypeError leaves it and is caught at line 234.
generate_meta_tags(outcome) ==
    IF outcome.kind = "raise"
      THEN [record |-> GenerateErrorRecord("predictor failed"), parse |-> NoParse]
    ELSE IF outcome.kind = "none"
      THEN [record |-> GenerateErrorRecord("'NoneType' object is not subscriptable"),
            parse |-> [called |-> TRUE, is_text |-> FALSE, raised |-> TRUE]]
    ELSE LET r == parse_meta_tags_json(outcome.text) IN
         IF r.exc # NoException
           THEN [record |-> GenerateErrorRecord(r.exc),
                 parse |-> [called |-> TRUE, is_text |-> TRUE,
                            input |-> outcome.text, raised |-> TRUE]]
           ELSE [record |-> r.record,
                 parse |-> [called |-> TRUE, is_text |-> TRUE,
                            input |-> outcome.text, raised |-> FALSE,
                            via |-> r.via, output |-> r.record]]

TextIdle ==
    /\ text_files = <<>>
    /\ num_rows = NoRows
    /\ selected = <<>>
    /\ tpc = "idle"
    /\ tpos = 1
    /\ story_results = <<>>
    /\ story_csv = <<>>
    /\ last_parse = NoParse

AudioIdle ==
    /\ audio_files = <<>>
    /\ pc = "idle"
    /\ idx = 1
    /\ results = <<>>
    /\ total_sarvam_cost = 0 /\ total_gemini_cost = 0
    /\ total_translation_cost = 0
    /\ total_sarvam_time = 0 /\ total_gemini_time = 0
    /\ total_translation_time = 0
    /\ loc = NoLocals
    /\ attempt = 0
    /\ now = 0
    /\ sent = <<>>
    /\ slept = <<>>
    /\ calls = NoCalls
    /\ returned = NoneReturned
    /\ output_csv = <<>>

\* The folder holds up to MaxStories files with different names
TextInit ==
    /\ text_files \in
          { fs \in UNION {[1..n -> StoryFileKinds] : n \in 0..MaxStories} :
               \A i, j \in 1..Len(fs) : i # j => fs[i].filename # fs[j].filename }
    /\ num_rows \in {NoRows} \cup {GivenRows(n) : n \in 0..MaxStories}
    /\ selected = <<>>
    /\ tpc = "scan"
    /\ tpos = 1
    /\ story_results = <<>>
    /\ story_csv = <<>>
    /\ last_parse = NoParse

\* scan_text_files (lines 109-132) and run's early return (lines 404-406)
ScanStep ==
    /\ tpc = "scan"
    /\ tpc' = IF text_files = <<>> THEN "no_files" ELSE "filter"
    /\ UNCHANGED <<text_files, num_rows, selected, tpos, story_results,
                   story_csv, last_parse>>
    /\ UNCHANGED <<audio_vars, parser_vars>>

\* lines 254-310: the filter and df.head(num_rows)
FilterStep ==
    /\ tpc = "filter"
    /\ LET df == Filtered(text_files) IN
       selected' = SubSeq(df, 1, EffectiveNumRows(num_rows, Len(df)))
    /\ tpc' = IF selected' = <<>> THEN "save" ELSE "story"
    /\ UNCHANGED <<text_files, num_rows, tpos, story_results, story_csv, last_parse>>
    /\ UNCHANGED <<audio_vars, parser_vars>>

\* The loop of line 312 moves to the next row, or ends
StoryLoopNext ==
    /\ tpos' = tpos + 1
    /\ tpc' = IF tpos + 1 <= Len(selected) THEN "story" ELSE "save"

\* Variant: a file that cannot be read is skipped without a row
ReadFailureSkip(filename) ==
    /\ story_results' = story_results
    /\ StoryLoopNext

\* lines 318-332: read_story_file returned None
ReadFailure(filename) ==
    /\ story_results' = Append(story_results, StoryRow(filename, ReadErrorCells))
    /\ StoryLoopNext

\* lines 312-357: one iteration of the loop
StoryStep ==
    /\ tpc = "story"
    /\ LET file == text_files[selected[tpos]] IN
       IF ~file.readable
         THEN /\ ReadFailure(file.filename)
              /\ last_parse' = NoParse
         ELSE \E outcome \in PredictorOutcomes :
                LET g == generate_meta_tags(outcome) IN
                /\ story_results' =
                      Append(story_results, StoryRow(file.filename, Cells(g.record)))
                /\ last_parse' = g.parse
                /\ StoryLoopNext
    /\ UNCHANGED <<text_files, num_rows, selected, story_csv>>
    /\ UNCHANGED <<audio_vars, parser_vars>>

\* final_df[col].astype(str) (line 365); the texts of the model hold no line
\* breaks, so the two replacements change nothing
CsvCells(cells) == [f \in RequiredSet |-> PyStrOf(cells[f])]

\* lines 359-393: the output file is written
SaveStep ==
    /\ tpc = "save"
    /\ story_csv' = [i \in 1..Len(story_results) |->
                       StoryRow(story_results[i].filename,
                                CsvCells(story_results[i].cells))]
    /\ tpc' = "done"
    /\ UNCHANGED <<text_files, num_rows, selected, tpos, story_results, last_parse>>
    /\ UNCHANGED <<audio_vars, parser_vars>>

-----------------------------------------------------------------------------
(* parse_meta_tags_json as a function of its text (lines 144-206): a first   *)
(* call on a text, then a second call on the same text inside fences, or on  *)
(* the first record written as JSON.                                         *)

\* A JSON object that has the required keys of S, with string values
SubsetObject(S) ==
    LET names == SelectSeq(required_fields, LAMBDA f : f \in S)
    IN  StrDict(names, [i \in 1..Len(names) |-> PyStr("the " \o names[i])])

SubsetDocuments == { Doc("both", SubsetObject(S)) : S \in SUBSET RequiredSet }

ParserInputs ==
    ModelOutputs
      \cup { <<doc>> : doc \in SubsetDocuments }
      \cup { <<Doc("py", TupleKeyedObject)>>,
             <<Fence, JsonTag, Ws, Doc("both", PartialObject)>>,
             <<Fence, Ws, Doc("both", PartialObject)>> }

\* A fenced code block around a text: with or without the json tag, with or
\* without whitespace outside and inside the fences
Wrappings == [tag : BOOLEAN, outer : BOOLEAN, inner : BOOLEAN]

Wrap(w, text) ==
    LET outer == IF w.outer THEN <<Ws>> ELSE <<>>
        inner == IF w.inner THEN <<Ws>> ELSE <<>>
        tag == IF w.tag THEN <<JsonTag>> ELSE <<>>
    IN  outer \o <<Fence>> \o tag \o inner \o text \o inner \o <<Fence>> \o outer

RECURSIVE PutAll(_, _, _)
PutAll(d, keys, vals) ==
    IF keys = <<>> THEN d
    ELSE PutAll(Put(d, PyStr(JsonKey(Head(keys))), Head(vals)), Tail(keys), Tail(vals))

\* The text json.dumps(record) writes for a record whose values are strings:
\* one JSON object; every key is written as a string, and a reader of the
\* text keeps the last value of a name written twice
JsonText(record) == <<Doc("both", PutAll(PyDict(<<>>, <<>>), record.keys, record.vals))>>

NoResult == [called |-> FALSE]
NoWrap == [fenced |-> FALSE]

ParserIdle ==
    /\ ppc = "idle"
    /\ p_text = <<>>
    /\ p_first = NoResult
    /\ p_wrap = NoWrap
    /\ p_text2 = <<>>
    /\ p_second = NoResult

ParserInit ==
    /\ ppc = "start"
    /\ p_text \in ParserInputs
    /\ p_first = NoResult
    /\ p_wrap = NoWrap
    /\ p_text2 = <<>>
    /\ p_second = NoResult

\* The first call
ParseCall ==
    /\ ppc = "start"
    /\ p_first' = parse_meta_tags_json(p_text)
    /\ ppc' = "parsed"
    /\ UNCHANGED <<p_text, p_wrap, p_text2, p_second>>
    /\ UNCHANGED <<audio_vars, text_vars>>

\* The second call, on the text of the first inside a fenced code block
FencedCall ==
    /\ ppc = "parsed"
    /\ \E w \in Wrappings :
         /\ p_wrap' = [fenced |-> TRUE, tag |-> w.tag, outer |-> w.outer,
                       inner |-> w.inner]
         /\ p_text2' = Wrap(w, p_text)
         /\ p_second' = parse_meta_tags_json(Wrap(w, p_text))
    /\ ppc' = "fenced"
    /\ UNCHANGED <<p_text, p_first>>
    /\ UNCHANGED <<audio_vars, text_vars>>

\* The second call, on the first record written by json.dumps; json.dumps
\* raises TypeError for a key that is a tuple
ReparseCall ==
    /\ ppc = "parsed"
    /\ p_first.exc = NoException
    /\ IF JsonSerializable(p_first.record)
         THEN /\ p_text2' = JsonText(p_first.record)
              /\ p_second' = parse_meta_tags_json(JsonText(p_first.record))
              /\ ppc' = "reparsed"
         ELSE /\ ppc' = "TypeError"
              /\ UNCHANGED <<p_text2, p_second>>
    /\ UNCHANGED <<p_text, p_first, p_wrap>>
    /\ UNCHANGED <<audio_vars, text_vars>>

-----------------------------------------------------------------------------
(* Properties of the audio pipeline *)

IsFailedRow(row) == row.duration = "N/A"
LastRow == results[Len(results)]
Written == pc \in {"summary", "done", "ZeroDivisionError"}
GeminiSent == SelectSeq(sent, LAMBDA q : q.to = "gemini")
English == {"en-IN", "en"}
ReturnedCost(call) == IF call = <<>> THEN 0 ELSE call[1].cost
ReturnedLatency(call) == IF call = <<>> THEN 0 ELSE call[1].latency

\* C1: whatever the per-file outcomes, the rows written are exactly one row
\* per input file, in enumeration order, followed by one TOTALS row:
\* len(input_files) + 1 rows.  While the loop runs, the files before the
\* current one have one row each.
C1_OneRowPerFilePlusTotals ==
    /\ pc \in {"sarvam", "translate", "gemini", "totals", "summary", "done",
               "ZeroDivisionError"}
    /\ ~Written =>
         /\ output_csv = <<>>
         /\ Len(results) = idx - 1
         /\ \A i \in 1..Len(results) : results[i].filename = Filename(i)
    /\ Written =>
         /\ Len(output_csv) = Len(audio_files) + 1
         /\ \A i \in 1..Len(audio_files) : output_csv[i].filename = Filename(i)
         /\ output_csv[Len(audio_files) + 1].filename = "TOTALS"

\* C1 witness: a batch of two files, one failed and one successful, written
C1_Witness ==
    /\ pc = "done"
    /\ Len(audio_files) = 2
    /\ IsFailedRow(output_csv[1])
    /\ ~IsFailedRow(output_csv[2])
    /\ Len(output_csv) = 3

\* C2: an exception raised at any stage of a file does not abort the batch:
\* the file gets one Failed row with the error message in both response
\* columns and "N/A" in every metric column, the loop goes on with the next
\* file, and in the end every file after a failed one has its row too.
C2_ExceptionGivesFailedRow ==
    /\ pc # "aborted"
    /\ calls.exc # NoException =>
         /\ Len(results) = idx - 1
         /\ LastRow = [filename |-> Filename(idx - 1),
                       duration |-> "N/A",
                       sarvam_response |-> "ERROR: " \o calls.exc,
                       sarvam_total_latency |-> "N/A",
                       sarvam_total_cost |-> "N/A",
                       translation_needed |-> "N/A",
                       gemini_response |-> "ERROR: " \o calls.exc,
                       gemini_latency |-> "N/A",
                       gemini_cost |-> "N/A"]
         /\ pc = IF idx <= Len(audio_files) THEN "sarvam" ELSE "totals"
    /\ Written =>
         \A i \in 1..Len(audio_files) :
            IsFailedRow(output_csv[i]) =>
               \A j \in (i + 1)..Len(audio_files) : output_csv[j].filename = Filename(j)

\* C2 witness: the first file failed in the Gemini stage, after Sarvam and
\* the translation had succeeded, and the second file is about to start
C2_Witness ==
    /\ calls.exc = "Gemini API Error 500"
    /\ calls.translation # <<>>
    /\ idx = 2
    /\ pc = "sarvam"

\* C4: each running total equals the sum of the values the calls of that
\* provider returned, and the TOTALS row's Sarvam columns are the Sarvam
\* total plus the translation total.
C4_TotalsAreSumOfReturned ==
    /\ total_sarvam_cost = returned.sarvam_cost
    /\ total_sarvam_time = returned.sarvam_time
    /\ total_translation_cost = returned.translation_cost
    /\ total_translation_time = returned.translation_time
    /\ total_gemini_cost = returned.gemini_cost
    /\ total_gemini_time = returned.gemini_time
    /\ Written =>
         LET totals == output_csv[Len(output_csv)] IN
         /\ totals.sarvam_total_cost =
               FmtUsd(returned.sarvam_cost + returned.translation_cost)
         /\ totals.sarvam_total_latency =
               FmtSeconds(returned.sarvam_time + returned.translation_time)
         /\ totals.gemini_cost = FmtUsd(returned.gemini_cost)
         /\ totals.gemini_latency = FmtSeconds(returned.gemini_time)

\* C4 witness: a written batch in which every provider returned twice
C4_Witness ==
    /\ pc = "done"
    /\ returned.sarvam_time = 4
    /\ returned.translation_time = 6
    /\ returned.translation_cost > 0
    /\ returned.gemini_time = 2

\* C5: the success row of a file reports, as Sarvam total cost, the STT cost
\* plus the translation cost of that file (0 without a translation call),
\* and as Sarvam total latency the STT latency plus the translation latency.
C5_RowTotalIsSumOfStages ==
    calls.gemini # <<>> =>
       /\ ~IsFailedRow(LastRow)
       /\ LastRow.filename = Filename(idx - 1)
       /\ LastRow.sarvam_total_cost =
             FmtUsd(ReturnedCost(calls.sarvam) + ReturnedCost(calls.translation))
       /\ LastRow.sarvam_total_latency =
             FmtSeconds(ReturnedLatency(calls.sarvam)
                          + ReturnedLatency(calls.translation))

\* C5 witness: a success row of a file whose translation cost something
C5_Witness ==
    /\ calls.gemini # <<>>
    /\ ReturnedCost(calls.translation) > 0
    /\ ReturnedCost(calls.sarvam) > 0

\* C6: the latency speech_to_text_gemini returns is the duration of the
\* successful request alone, however many 429 responses came before it.
C6_LatencyIsSuccessfulRequestOnly ==
    calls.gemini # <<>> =>
       /\ calls.gemini[1].latency = calls.ok_request_time[1]
       /\ LastRow.gemini_latency = FmtSeconds(calls.ok_request_time[1])

\* C6 witness: success after two rate-limited requests and two sleeps
C6_Witness ==
    /\ calls.gemini # <<>>
    /\ Len(GeminiSent) = 3
    /\ slept = <<30, 60>>
    /\ calls.ok_request_time = <<1>>

\* C7: at most retries + 1 requests go to Gemini for one file; a request
\* is sent again only after a 429; the sleep before the k-th retry is
\* delay * k; a 429 on the last allowed attempt raises an error that fails
\* that file only.
C7_BoundedRetryLinearBackoff ==
    /\ Len(GeminiSent) <= retries + 1
    /\ \A k \in 2..Len(GeminiSent) : GeminiSent[k - 1].status = 429
    /\ \A k \in 1..Len(slept) : slept[k] = delay * k
    /\ Len(slept) = Cardinality({k \in 1..Len(GeminiSent) :
                                   GeminiSent[k].status = 429 /\ k <= retries})
    /\ pc = "gemini" => Len(GeminiSent) = attempt /\ Len(slept) = attempt
    /\ (Len(GeminiSent) = retries + 1 /\ GeminiSent[retries + 1].status = 429) =>
         /\ calls.exc = "Gemini API quota exceeded after retries."
         /\ IsFailedRow(LastRow)
         /\ LastRow.filename = Filename(idx - 1)
         /\ pc = IF idx <= Len(audio_files) THEN "sarvam" ELSE "totals"

\* C7 witness: three rate-limited requests for the first of two files
C7_Witness ==
    /\ Len(GeminiSent) = 3
    /\ GeminiSent[3].status = 429
    /\ slept = <<30, 60>>
    /\ idx = 2
    /\ pc = "sarvam"

\* C8: a translation call is issued exactly when the detected language is
\* not English, and a translation call that fails (a non-OK response, or a
\* response without usable text) does not abort the file: the loop goes on
\* to the Gemini stage with the untranslated transcript as Sarvam response.
C8_TranslationFailureNeverAborts ==
    /\ pc = "translate" => loc.sarvam_lang \notin English
    /\ (pc = "gemini" /\ attempt = 0) =>
         ((\E k \in 1..Len(sent) : sent[k].to = "translate")
             <=> loc.sarvam_lang \notin English)
    /\ (sent # <<>> /\ sent[Len(sent)].to = "translate") =>
         /\ calls.exc = NoException
         /\ pc = "gemini"
         /\ ~Truthy(calls.translation[1].translation) =>
               loc.sarvam_resp = loc.sarvam_transcript

-----------------------------------------------------------------------------
(* Properties of the text pipeline *)

StoryWritten == tpc = "done"
RowsOf(i) ==
    Cardinality({k \in 1..Len(story_csv) :
                    story_csv[k].filename = text_files[i].filename})
OnWhitelist(i) ==
    LET name == text_files[i].filename IN
    \E v \in valid_names : name = <<name[1]>> \o v
RowLimit == IF num_rows.given THEN num_rows.n ELSE DEFAULT_NUM_ROWS
WithinLimit(i) == Cardinality({j \in 1..(i - 1) : OnWhitelist(j)}) < RowLimit
LastStoryRow == story_results[Len(story_results)]
ParsedText == last_parse.called /\ last_parse.is_text

C9_RecordHasAllKeysAsFlatStrings ==
    ParsedText =>
      /\ ~last_parse.raised
      /\ last_parse.via \in {"json", "literal_eval", "failed"}
      /\ Len(last_parse.output.keys) = Len(last_parse.output.vals)
      /\ \A f \in RequiredSet : HasKey(last_parse.output, f)
      /\ \A i \in 1..Len(last_parse.output.vals) :
            last_parse.output.vals[i].t = "str"
      /\ \A f \in RequiredSet :
            LastStoryRow.cells[f] = Lookup(last_parse.output, f)

C9_Witness ==
    /\ ParsedText
    /\ ~last_parse.raised
    /\ last_parse.via = "literal_eval"
    /\ Lookup(last_parse.output, "keywords") = PyStr("('a', 'b')")
    /\ Lookup(last_parse.output, "theme_primary") = PyStr("None")
    /\ Lookup(last_parse.output, "setting_primary") = PyStr("Not specified")

\* The text, once cleaned, is accepted by neither parse, or denotes a value
\* that is not a mapping
Malformed(text) ==
    LET cleaned == CleanJsonString(text)
        strict == JsonLoads(cleaned)
        literal == LiteralEval(cleaned)
    IN  IF strict.exc = NoException THEN strict.value.t # "dict"
        ELSE IF literal.exc = NoException THEN literal.value.t # "dict"
        ELSE TRUE

\* C10: when both parses fail, or the parsed value is not a mapping,
\* parse_meta_tags_json does not raise: it returns the record whose 11 values
\* are 'Error parsing', the file gets a row with these values, and the loop
\* goes on to the next file.
C10_MalformedGivesErrorParsingRecord ==
    (ParsedText /\ Malformed(last_parse.input)) =>
      /\ ~last_parse.raised
      /\ last_parse.output = StrDict(required_fields, last_parse.output.vals)
      /\ \A i \in 1..Len(required_fields) :
            last_parse.output.vals[i] = PyStr("Error parsing")
      /\ \A f \in RequiredSet : LastStoryRow.cells[f] = PyStr("Error parsing")
      /\ tpc \in {"story", "save", "done"}
      /\ tpc = "story" => (tpos = Len(story_results) + 1 /\ tpos <= Len(selected))

C10_Witness ==
    /\ ParsedText
    /\ last_parse.input = <<Prose>>
    /\ ~last_parse.raised
    /\ tpc = "story"
    /\ Len(story_results) = 1
    /\ tpos = 2
    /\ LastStoryRow.cells["keywords"] = PyStr("Error parsing")

-----------------------------------------------------------------------------
(* Properties of the parser *)

FirstDone == ppc \in {"parsed", "fenced", "reparsed", "TypeError"}
IsDocument(text) == Len(text) = 1 /\ text[1].tok = "doc"

\* The text is one JSON object whose values are strings
JsonObjectOfStrings(text) ==
    /\ IsDocument(text)
    /\ text[1].syntax \in {"json", "both"}
    /\ text[1].value.t = "dict"
    /\ \A i \in 1..Len(text[1].value.vals) : text[1].value.vals[i].t = "str"

\* C11: for a valid JSON object with string values that lacks some of the 11
\* required keys, the record has "Not specified" under exactly the missing
\* keys, and every key that was present keeps its value unchanged.
C11_MissingKeysDefaultedOthersKept ==
    (FirstDone /\ JsonObjectOfStrings(p_text)) =>
      LET given == p_text[1].value
          record == p_first.record
      IN  /\ p_first.exc = NoException
          /\ p_first.via = "json"
          /\ \A f \in RequiredSet :
                /\ HasKey(record, f)
                /\ Lookup(record, f) =
                      IF HasKey(given, f) THEN Lookup(given, f)
                                          ELSE PyStr("Not specified")
          /\ \A i \in 1..Len(given.keys) :
                \E j \in 1..Len(record.keys) :
                   record.keys[j] = given.keys[i] /\ record.vals[j] = given.vals[i]
          /\ Len(record.keys) =
                Len(given.keys)
                  + Cardinality({f \in RequiredSet : ~HasKey(given, f)})

C11_Witness ==
    /\ ppc = "parsed"
    /\ p_text = <<Doc("both", SubsetObject(RequiredSet \ {"keywords", "theme_primary",
                                                          "events_secondary"}))>>
    /\ Lookup(p_first.record, "keywords") = PyStr("Not specified")
    /\ Lookup(p_first.record, "theme_primary") = PyStr("Not specified")
    /\ Lookup(p_first.record, "events_secondary") = PyStr("Not specified")
    /\ Lookup(p_first.record, "character_primary") = PyStr("the character_primary")

\* The text, once trimmed, itself starts with the json fence or ends with a
\* fence
CarriesFence(text) ==
    LET trimmed == StripText(text)
    IN  \/ (Len(trimmed) >= 2 /\ trimmed[1] = Fence /\ trimmed[2] = JsonTag)
        \/ (trimmed # <<>> /\ trimmed[Len(trimmed)] = Fence)

JsonFenced == ppc = "fenced" /\ p_wrap.tag

\* C12, as the specification states it: for every text t, the text t inside
\* a leading json fence and a trailing fence, with optional whitespace
\* around, gives the same record as t without the fences.
C12_FencedParsesAsUnfenced ==
    JsonFenced =>
      /\ p_first.exc = NoException /\ p_second.exc = NoException
      /\ p_second.record = p_first.record

\* C12, as the code has it: the same, for every text t that does not itself,
\* once trimmed, start with the json fence or end with a fence; the parser
\* removes one leading json fence and one trailing fence only.
C12_FencedParsesAsUnfencedOnce ==
    (JsonFenced /\ ~CarriesFence(p_text)) =>
      /\ p_first.exc = NoException /\ p_second.exc = NoException
      /\ p_second.record = p_first.record
      /\ p_second.via = p_first.via

C12_Witness ==
    /\ JsonFenced
    /\ p_wrap.inner /\ p_wrap.outer
    /\ p_text = <<Doc("py", LiteralObject)>>
    /\ p_text2 = <<Ws, Fence, JsonTag, Ws, Doc("py", LiteralObject), Ws, Fence, Ws>>
    /\ p_second.via = "literal_eval"
    /\ p_second.record = p_first.record
    /\ Lookup(p_second.record, "character_primary") = PyStr("Alice")

ReparseTried == ppc \in {"reparsed", "TypeError"}
StringKeysOnly(record) == \A i \in 1..Len(record.keys) : record.keys[i].t = "str"

\* C13, as the specification states it: for every input, writing the record
\* the parser returned as JSON and parsing that text again gives a record
\* identical to the first.
C13_ParserIdempotent ==
    ReparseTried =>
      /\ ppc = "reparsed"
      /\ p_second.exc = NoException
      /\ p_second.record = p_first.record

\* C13, as the code has it: the same, for every input whose record has only
\* strings as keys: every text that parses as JSON, every text that does not
\* parse, and every Python literal whose keys are strings.
C13_ParserIdempotentOnStringKeys ==
    (ReparseTried /\ StringKeysOnly(p_first.record)) =>
      /\ ppc = "reparsed"
      /\ p_second.exc = NoException
      /\ p_second.via = "json"
      /\ p_second.record = p_first.record

C13_Witness ==
    /\ ppc = "reparsed"
    /\ p_text = <<Doc("json", NestedObject)>>
    /\ Lookup(p_first.record, "character_primary") = PyStr("[\"Alice\", \"Bob\"]")
    /\ Lookup(p_first.record, "keywords") = PyStr("Not specified")
    /\ p_text2 = <<Doc("both", p_first.record)>>
    /\ p_second.record = p_first.record

\* The text is one valid JSON object
JsonObject(text) ==
    /\ IsDocument(text)
    /\ text[1].syntax \in {"json", "both"}
    /\ text[1].value.t = "dict"

\* C16: a valid JSON object inside a bare fence, a fence marker without a
\* language tag before it and a fence marker after it, has both fences
\* removed and gives the record of the object without fences, not the error
\* record.
C16_BareFenceParsesAsUnfenced ==
    (ppc = "fenced" /\ ~p_wrap.tag /\ JsonObject(p_text)) =>
      /\ p_first.via = "json"
      /\ p_second.exc = NoException
      /\ p_second.via = "json"
      /\ p_second.record = p_first.record
      /\ p_second.record # ErrorRecord

-----------------------------------------------------------------------------
(* Further properties of the audio pipeline *)

\* The translation call of the current file returned, without usable text
FellBack(calls_) ==
    /\ calls_.translation # <<>>
    /\ ~Truthy(calls_.translation[1].translation)

\* C14: when the translation call returned no usable text, the response falls
\* back to the transcript, and the cost and latency the call returned are
\* added to the batch translation totals and, when the file gets its success
\* row, to the row's Sarvam total cost and latency; nothing is reset to zero.
C14_FallbackKeepsTranslationCost ==
    [][ /\ (pc = "translate" /\ pc' = "gemini" /\ FellBack(calls')) =>
             /\ total_translation_cost' =
                   total_translation_cost + calls'.translation[1].cost
             /\ total_translation_time' =
                   total_translation_time + calls'.translation[1].latency
             /\ loc'.sarvam_resp = loc.sarvam_transcript
        /\ (pc = "gemini" /\ FellBack(calls) /\ Len(results') = Len(results) + 1
               /\ ~IsFailedRow(results'[Len(results')])) =>
             LET row == results'[Len(results')] IN
             /\ row.sarvam_response = loc.sarvam_transcript
             /\ row.translation_needed = "Yes"
             /\ row.sarvam_total_cost =
                   FmtUsd(calls.sarvam[1].cost + calls.translation[1].cost)
             /\ row.sarvam_total_latency =
                   FmtSeconds(calls.sarvam[1].latency + calls.translation[1].latency)
             /\ total_translation_cost' = total_translation_cost
             /\ total_translation_time' = total_translation_time
      ]_vars

C14_Witness ==
    /\ results # <<>>
    /\ ~IsFailedRow(LastRow)
    /\ calls.gemini # <<>>
    /\ FellBack(calls)
    /\ calls.translation[1].cost > 0
    /\ calls.translation[1].latency > 0
    /\ LastRow.sarvam_response = "namaste"
    /\ LastRow.sarvam_total_cost =
          FmtUsd(calls.sarvam[1].cost + calls.translation[1].cost)
    /\ total_translation_cost >= calls.translation[1].cost

\* A request to a transcription provider answered with a status outside 2xx
\* other than 429
RemoteError(q) ==
    /\ q.to \in {"sarvam", "gemini"}
    /\ q.status \notin 200..299
    /\ q.status # 429

\* C15: a non-2xx response other than 429 from a transcription provider is
\* not retried: the call raises on it, it is the last request sent for the
\* file (Gemini is not called after a failed Sarvam call), the file gets a
\* Failed row, and the loop is at the next file with fresh locals, or at the
\* totals.
C15_RemoteErrorFailsFileWithoutRetry ==
    \A k \in 1..Len(sent) :
       RemoteError(sent[k]) =>
         /\ k = Len(sent)
         /\ calls.exc # NoException
         /\ pc \in {"sarvam", "totals"}
         /\ Len(results) = idx - 1
         /\ IsFailedRow(LastRow)
         /\ LastRow.filename = Filename(idx - 1)
         /\ loc = NoLocals /\ attempt = 0
         /\ pc = "sarvam" <=> idx <= Len(audio_files)

\* How far the i-th file is: 0 pending, 1 at its Sarvam request, 2 at its
\* translation, 3 at its Gemini requests, 4 at its row (Done or Failed)
Stage(i) ==
    IF i <= Len(results) /\ i < idx THEN 4
    ELSE IF i > idx \/ pc \notin {"sarvam", "translate", "gemini"} THEN 0
    ELSE CASE pc = "sarvam" -> 1
           [] pc = "translate" -> 2
           [] pc = "gemini" -> 3

Terminated == pc \in {"done", "ZeroDivisionError"}

\* C17: with every request answered, the audio batch terminates.  Each file
\* goes forward only, from pending through its requests to its row, Done or
\* Failed, and the row, once appended, stays as it is; one file is in
\* progress at a time, every earlier file has its row and every later file
\* is pending, so that no request is sent for a file before the rows of the
\* files before it are appended; the retry loop sends at most retries + 1
\* requests; the TOTALS row is eventually written and the run ends.
C17_BatchTerminates ==
    /\ [](pc \in {"sarvam", "translate", "gemini"} =>
            /\ idx \in 1..Len(audio_files)
            /\ Len(results) = idx - 1
            /\ \A i \in 1..Len(audio_files) :
                  /\ i < idx => Stage(i) = 4
                  /\ i > idx => Stage(i) = 0
            /\ attempt <= retries
            /\ Len(GeminiSent) <= retries + 1)
    /\ [][ /\ \A i \in 1..Len(audio_files) :
                /\ Stage(i)' >= Stage(i)
                /\ Stage(i) = 4 => (Stage(i)' = 4 /\ results'[i] = results[i])
           /\ (sent' # sent /\ sent' # <<>>) =>
                (Len(results) = idx - 1 /\ \A i \in 1..(idx - 1) : Stage(i) = 4)
         ]_vars
    /\ <>(/\ output_csv # <<>>
          /\ Len(output_csv) = Len(audio_files) + 1
          /\ output_csv[Len(output_csv)].filename = "TOTALS")
    /\ <>[]Terminated

C17_Witness ==
    /\ pc = "done"
    /\ Len(audio_files) = 2
    /\ Len(results) = 3
    /\ IsFailedRow(results[1])
    /\ ~IsFailedRow(results[2])
    /\ results[3].filename = "TOTALS"
    /\ output_csv = results

\* C18: process_all_audio_files returns normally for every batch, the batch
\* without audio files included: once the CSV is written, the summary is
\* computed and printed without an exception.
C18_SummaryNeverRaises ==
    /\ pc # "ZeroDivisionError"
    /\ (pc = "done" \/ pc = "summary") =>
          (output_csv = results /\ Len(results) = Len(audio_files) + 1)

\* The iteration of the last row ended in the except clause, and no later
\* iteration has begun
JustFailed ==
    /\ Len(results) > 0
    /\ pc \in {"sarvam", "totals"}
    /\ calls.exc # NoException
    /\ IsFailedRow(LastRow)

\* C19: a file that ends in a Failed row contributes nothing to the batch
\* totals: after the failed file the six running totals have the values they
\* had when the file was started, and in the written file each cost and
\* latency cell of the TOTALS row is the sum of that column over the success
\* rows.
C19_FailedFileAddsNothingToTotals ==
    /\ JustFailed => AudioTotals = calls.before
    /\ Written =>
         LET totals == output_csv[Len(output_csv)] IN
         /\ totals.sarvam_total_latency = FmtSeconds(returned.rows_sarvam_time)
         /\ totals.sarvam_total_cost = FmtUsd(returned.rows_sarvam_cost)
         /\ totals.gemini_latency = FmtSeconds(returned.rows_gemini_time)
         /\ totals.gemini_cost = FmtUsd(returned.rows_gemini_cost)

-----------------------------------------------------------------------------

(* The audio batch *)

Init == AudioInit /\ TextIdle /\ ParserIdle

Next ==
    \/ SarvamStep
    \/ TranslateStep
    \/ GeminiStep
    \/ TotalsStep
    \/ SummaryStep

Spec == Init /\ [][Next]_vars

\* The loop is sequential code: the statement it is at is executed, and every
\* request is answered
FairSpec == Init /\ [][Next]_vars /\ WF_vars(Next)

(* The text batch *)

StoryInit == TextInit /\ AudioIdle /\ ParserIdle

StoryNext ==
    \/ ScanStep
    \/ FilterStep
    \/ StoryStep
    \/ SaveStep

TextSpec == StoryInit /\ [][StoryNext]_vars

(* The parser on its own *)

ParserStart == ParserInit /\ AudioIdle /\ TextIdle

ParserNext ==
    \/ ParseCall
    \/ FencedCall
    \/ ReparseCall

ParserSpec == ParserStart /\ [][ParserNext]_vars

====
